---- MODULE Spec2Model ----
(***************************************************************************)
(* Model of tensorforce/util/agent_util.py (the agent registry) and of     *)
(* tune.py (TensorforceWorker.compute, the tuning objective, and the part  *)
(* of get_configspace / main that fixes its inputs).                       *)
(*                                                                         *)
(* Real numbers are modelled exactly as fractions [num, den]; nan is the   *)
(* separate value NaN (numpy's mean of an empty list).                     *)
(***************************************************************************)
EXTENDS Integers, Sequences, FiniteSets, TLC

VARIABLES
    \* ---- agent_util.py ----
    calls,          \* number of registry calls made so far
    last,           \* the last registry call: operation, arguments, outcome
    outcome,        \* per (operation, type name): outcome kind of the last such call
    constructed,    \* agent instances constructed so far, in order
    \* ---- tune.py: TensorforceWorker.compute ----
    config,         \* the hyperparameter sample (a dict: keys -> values)
    budget,         \* the budget, in units of 1/BudgetDen
    pc,             \* position in compute
    agent,          \* the agent configuration dict built by lines 39-91
    branch,         \* which baseline branch of lines 52-76 was entered
    reads,          \* the config keys read so far
    error,          \* the exception that left compute, or "None"
    n,              \* loop variable of line 98
    runners,        \* every Runner constructed so far (the last one is `runner`)
    final_reward,   \* list of line 94
    max_reward,     \* list of line 95
    rewards,        \* list of line 96
    result          \* the returned dict, or NoResult

vars == <<calls, last, outcome, constructed, config, budget, pc, agent, branch,
          reads, error, n, runners, final_reward, max_reward, rewards, result>>

registryVars == <<calls, last, outcome, constructed>>
computeVars == <<config, budget, pc, agent, branch, reads, error, n, runners,
                 final_reward, max_reward, rewards, result>>

\* Python's None
None == [type |-> "NoneType"]

-----------------------------------------------------------------------------
(* Bounds *)

MaxCalls == 3

-----------------------------------------------------------------------------
(* agent_util.py *)

\* The agent classes imported from tensorforce.rl_agents
RandomAgent ==
    [class |-> "RandomAgent",
     default_config |-> [of |-> "RandomAgent"],
     value_function_ref |-> [default_config |-> [of |-> "RandomAgent.value_function_ref"]]]

DQNAgent ==
    [class |-> "DQNAgent",
     default_config |-> [of |-> "DQNAgent"],
     value_function_ref |-> [default_config |-> [of |-> "DQNAgent.value_function_ref"]]]

\* agents = {'RandomAgent': RandomAgent, 'DQNAgent': DQNAgent}
agents == [name \in {"RandomAgent", "DQNAgent"} |->
              IF name = "RandomAgent" THEN RandomAgent ELSE DQNAgent]

\* dict.get(key): the value, or None for a missing key
DictGet(d, key) == IF key \in DOMAIN d THEN d[key] ELSE None

\* truth value of an object as `not x` sees it: None is false, a class is true
Truthy(x) == x # None

\* tensorforce.config.Config(x)
Config(x) == [type |-> "Config", data |-> x]

\* agent_class(agent_config, network_config)
Instantiate(agent_class, a, b) ==
    [instance_of |-> agent_class.class, agent_config |-> a, network_config |-> b]

Raise(kind) == [raised |-> kind, value |-> None]
Return(v) == [raised |-> "None", value |-> v]

\* variant: the two configurations passed in the other order
create_agent_swapped(agent_type, agent_config, network_config) ==
    LET agent_class == DictGet(agents, agent_type) IN
    IF ~Truthy(agent_class)
    THEN Raise("TensorForceValueError")
    ELSE Return(Instantiate(agent_class, network_config, agent_config))

\* lines 25-39
create_agent(agent_type, agent_config, network_config) ==
    LET agent_class == DictGet(agents, agent_type) IN
    IF ~Truthy(agent_class)
    THEN Raise("TensorForceValueError")
    ELSE Return(Instantiate(agent_class, agent_config, network_config))

\* variant: the pair in the other order
get_default_config_swapped(agent_type) ==
    LET agent_class == DictGet(agents, agent_type) IN
    IF ~Truthy(agent_class)
    THEN Raise("TensorForceValueError")
    ELSE Return(<<Config(agent_class.value_function_ref.default_config),
                  Config(agent_class.default_config)>>)

\* lines 41-53
get_default_config(agent_type) ==
    LET agent_class == DictGet(agents, agent_type) IN
    IF ~Truthy(agent_class)
    THEN Raise("TensorForceValueError")
    ELSE Return(<<Config(agent_class.default_config),
                  Config(agent_class.value_function_ref.default_config)>>)

\* Inputs of the registry calls
AgentTypeNames == {"RandomAgent", "DQNAgent", "PPOAgent", "dqnagent"}
AgentConfigs == {[kind |-> "agent_config", id |-> 1], [kind |-> "agent_config", id |-> 2]}
NetworkConfigs == {[kind |-> "network_config", id |-> 1], [kind |-> "network_config", id |-> 2]}

Operations == {"create_agent", "get_default_config"}

NoCall == [op |-> "None", agent_type |-> "None", agent_config |-> None,
           network_config |-> None, before |-> 0, raised |-> "None", value |-> None]

CallCreateAgent(t, a, b) ==
    LET r == create_agent(t, a, b) IN
    /\ calls < MaxCalls
    /\ calls' = calls + 1
    /\ last' = [op |-> "create_agent", agent_type |-> t, agent_config |-> a,
                network_config |-> b, before |-> Len(constructed),
                raised |-> r.raised, value |-> r.value]
    /\ outcome' = [outcome EXCEPT ![<<"create_agent", t>>] = r.raised]
    /\ constructed' = IF r.raised = "None" THEN Append(constructed, r.value)
                      ELSE constructed
    /\ UNCHANGED computeVars

CallGetDefaultConfig(t) ==
    LET r == get_default_config(t) IN
    /\ calls < MaxCalls
    /\ calls' = calls + 1
    /\ last' = [op |-> "get_default_config", agent_type |-> t, agent_config |-> None,
                network_config |-> None, before |-> Len(constructed),
                raised |-> r.raised, value |-> r.value]
    /\ outcome' = [outcome EXCEPT ![<<"get_default_config", t>>] = r.raised]
    /\ UNCHANGED constructed
    /\ UNCHANGED computeVars

CreateAgentStep == \E t \in AgentTypeNames, a \in AgentConfigs, b \in NetworkConfigs :
                       CallCreateAgent(t, a, b)

GetDefaultConfigStep == \E t \in AgentTypeNames : CallGetDefaultConfig(t)

-----------------------------------------------------------------------------
(* tune.py: numbers *)

\* Bounds of the tuning model
MaxRepeats == 2
BudgetDen == 2
NumProfiles == 3

\* Program constants
NumEpisodes == 200
Window == 20
EntropyThresholdNum == 3
EntropyDen == 100000
MinBudgetNum == 1
MinBudgetDen == 2
BatchSizeLower == 1
BatchSizeUpper == 50
FrequencyLowerNum == 1
FrequencyDen == 100

Abs(x) == IF x < 0 THEN -x ELSE x

RECURSIVE GCD(_, _)
GCD(a, b) == IF b = 0 THEN a ELSE GCD(b, a % b)

\* a float, modelled exactly: the fraction a / b (b > 0) in lowest terms
Frac(a, b) == LET g == GCD(Abs(a), b) IN [num |-> a \div g, den |-> b \div g]

\* float('nan')
NaN == [num |-> 0, den |-> 0]
IsNaN(x) == x.den = 0

FracAdd(x, y) == IF IsNaN(x) \/ IsNaN(y) THEN NaN
                 ELSE Frac(x.num * y.den + y.num * x.den, x.den * y.den)
FracNeg(x) == IF IsNaN(x) THEN NaN ELSE [num |-> -x.num, den |-> x.den]
FracSub(x, y) == FracAdd(x, FracNeg(y))
FracDivInt(x, k) == IF IsNaN(x) THEN NaN ELSE Frac(x.num, x.den * k)
FracLess(x, y) == x.num * y.den < y.num * x.den

\* int(x) for a float x >= 0: truncation
PyInt(x) == x.num \div x.den

\* max(a, b) on integers
PyMax(a, b) == IF b > a THEN b ELSE a

\* round(k / den) for k >= 0: Python 3 rounds a tie to the even neighbour
PyRound(k, den) ==
    LET q == k \div den
        r == k % den
    IN  IF 2 * r < den THEN q
        ELSE IF 2 * r > den THEN q + 1
        ELSE IF q % 2 = 0 THEN q ELSE q + 1

\* seq[lo:hi] with 0 <= lo, Python's clipping of the upper index
Slice(seq, lo, hi) ==
    LET h == IF hi > Len(seq) THEN Len(seq) ELSE hi
    IN  IF lo >= h THEN <<>> ELSE SubSeq(seq, lo + 1, h)

\* seq[-k:]
LastK(seq, k) == IF Len(seq) <= k THEN seq ELSE SubSeq(seq, Len(seq) - k + 1, Len(seq))

RECURSIVE SumInt(_)
SumInt(seq) == IF seq = <<>> THEN 0 ELSE Head(seq) + SumInt(Tail(seq))

RECURSIVE SumFrac(_)
SumFrac(seq) == IF seq = <<>> THEN Frac(0, 1) ELSE FracAdd(Head(seq), SumFrac(Tail(seq)))

\* float(np.mean(seq, axis=0)) on a list of integer rewards; nan for an empty list
MeanOfRewards(seq) == IF seq = <<>> THEN NaN ELSE Frac(SumInt(seq), Len(seq))

\* float(np.mean(seq, axis=0)) on a list of floats; nan for an empty list
MeanOfFloats(seq) == IF seq = <<>> THEN NaN ELSE FracDivInt(SumFrac(seq), Len(seq))

\* np.amax(seq, axis=0) on a non-empty list of floats
Amax(seq) ==
    LET values == {seq[i] : i \in 1..Len(seq)}
    IN  CHOOSE m \in values : \A v \in values : ~FracLess(m, v)

-----------------------------------------------------------------------------
(* tune.py: get_configspace *)

Baselines == {"no", "same", "yes"}

ConditionalKeys == {"estimate_advantage", "baseline_weight", "baseline_learning_rate"}

\* the add_condition calls: when a conditional hyperparameter is active
Active(key, baseline) ==
    CASE key = "estimate_advantage" -> baseline # "no"
      [] key = "baseline_weight" -> baseline = "same"
      [] key = "baseline_learning_rate" -> baseline = "yes"
      [] OTHER -> TRUE

\* the value a hyperparameter has in the samples of the model
ValueOf(key, bs, fq, rb, bl, ea, er) ==
    CASE key = "batch_size" -> bs
      [] key = "frequency" -> Frac(fq, FrequencyDen)
      [] key = "learning_rate" -> Frac(1, 1000)
      [] key = "horizon" -> 10
      [] key = "discount" -> Frac(99, 100)
      [] key = "ratio_based" -> rb
      [] key = "baseline" -> bl
      [] key = "baseline_weight" -> Frac(1, 2)
      [] key = "baseline_learning_rate" -> Frac(3, 1000)
      [] key = "estimate_advantage" -> ea
      [] key = "entropy_regularization" -> Frac(er, EntropyDen)

UnconditionalKeys == {"batch_size", "frequency", "learning_rate", "horizon", "discount",
                      "ratio_based", "baseline", "entropy_regularization"}

\* a sample as a dict: the unconditional hyperparameters and the conditional ones in present
Sample(present, bs, fq, rb, bl, ea, er) ==
    [key \in UnconditionalKeys \cup present |-> ValueOf(key, bs, fq, rb, bl, ea, er)]

\* a sample the configuration space can produce: a conditional hyperparameter is
\* present exactly when its condition holds
InSearchSpace(cfg) ==
    /\ cfg["baseline"] \in Baselines
    /\ \A key \in ConditionalKeys : key \in DOMAIN cfg <=> Active(key, cfg["baseline"])
    /\ cfg["batch_size"] \in BatchSizeLower..BatchSizeUpper
    /\ cfg["frequency"].num * FrequencyDen >= FrequencyLowerNum * cfg["frequency"].den
    /\ cfg["frequency"].num <= cfg["frequency"].den

-----------------------------------------------------------------------------
(* tune.py: TensorforceWorker.compute, lines 39-91 *)

Network == [type |-> "auto", size |-> 64, depth |-> 2, rnn |-> FALSE]

\* variant: without max(1, ...)
UpdateFrequencyNoFloor(cfg) ==
    PyInt(Frac(cfg["frequency"].num * cfg["batch_size"], cfg["frequency"].den))

\* line 39
UpdateFrequency(cfg) ==
    PyMax(1, PyInt(Frac(cfg["frequency"].num * cfg["batch_size"], cfg["frequency"].den)))

\* lines 44-47
Objective(cfg) ==
    IF cfg["ratio_based"] = "yes"
    THEN [type |-> "policy_gradient", ratio_based |-> TRUE, clipping_value |-> Frac(2, 10)]
    ELSE [type |-> "policy_gradient", ratio_based |-> FALSE, clipping_value |-> Frac(2, 10)]

\* the outcome of a branch: the keys it read, the exception it raised, its bundle
Branch(name, keys, raised, bundle) ==
    [branch |-> name, reads |-> keys, raised |-> raised, bundle |-> bundle]

\* the configuration bundles of lines 53-58, 60-65 and 67-74
BundleNo ==
    [predict_horizon_values |-> "False", estimate_advantage |-> FALSE,
     predict_action_values |-> FALSE, baseline_policy |-> None,
     baseline_optimizer |-> None, baseline_objective |-> None]

BundleSame(cfg) ==
    [predict_horizon_values |-> "early",
     estimate_advantage |-> (cfg["estimate_advantage"] = "yes"),
     predict_action_values |-> FALSE, baseline_policy |-> None,
     baseline_optimizer |-> cfg["baseline_weight"],
     baseline_objective |-> [type |-> "value", value |-> "state"]]

BundleYes(cfg) ==
    [predict_horizon_values |-> "early",
     estimate_advantage |-> (cfg["estimate_advantage"] = "yes"),
     predict_action_values |-> FALSE, baseline_policy |-> [network |-> Network],
     baseline_optimizer |-> [type |-> "adam",
                             learning_rate |-> cfg["baseline_learning_rate"]],
     baseline_objective |-> [type |-> "value", value |-> "state"]]

\* a branch reading keys in order: KeyError at the first one missing
ReadInOrder(cfg, name, k1, k2, bundle) ==
    IF k1 \notin DOMAIN cfg THEN Branch(name, {k1}, "KeyError", None)
    ELSE IF k2 \notin DOMAIN cfg THEN Branch(name, {k1, k2}, "KeyError", None)
    ELSE Branch(name, {k1, k2}, "None", bundle)

\* variant: estimate_advantage read before the branch is chosen
SelectBaselineEager(cfg) ==
    IF cfg["baseline"] \notin Baselines
    THEN Branch("else", {}, "AssertionError", None)
    ELSE IF "estimate_advantage" \notin DOMAIN cfg
    THEN Branch(cfg["baseline"], {"estimate_advantage"}, "KeyError", None)
    ELSE IF cfg["baseline"] = "no" THEN Branch("no", {"estimate_advantage"}, "None", BundleNo)
    ELSE IF cfg["baseline"] = "same"
    THEN ReadInOrder(cfg, "same", "estimate_advantage", "baseline_weight", BundleSame(cfg))
    ELSE ReadInOrder(cfg, "yes", "estimate_advantage", "baseline_learning_rate",
                     BundleYes(cfg))

\* variant: no final else, the last branch taken for every other value
SelectBaselineFallThrough(cfg) ==
    IF cfg["baseline"] = "no" THEN Branch("no", {}, "None", BundleNo)
    ELSE IF cfg["baseline"] = "same"
    THEN ReadInOrder(cfg, "same", "estimate_advantage", "baseline_weight", BundleSame(cfg))
    ELSE ReadInOrder(cfg, "yes", "estimate_advantage", "baseline_learning_rate",
                     BundleYes(cfg))

\* lines 52-76
SelectBaseline(cfg) ==
    IF cfg["baseline"] = "no" THEN Branch("no", {}, "None", BundleNo)
    ELSE IF cfg["baseline"] = "same"
    THEN ReadInOrder(cfg, "same", "estimate_advantage", "baseline_weight", BundleSame(cfg))
    ELSE IF cfg["baseline"] = "yes"
    THEN ReadInOrder(cfg, "yes", "estimate_advantage", "baseline_learning_rate",
                     BundleYes(cfg))
    ELSE Branch("else", {}, "AssertionError", None)

\* lines 78-81
EntropyRegularization(cfg) ==
    IF FracLess(cfg["entropy_regularization"], Frac(EntropyThresholdNum, EntropyDen))
    THEN Frac(0, 1)
    ELSE cfg["entropy_regularization"]

\* lines 40-43 and 83-91
AgentDict(cfg, bundle) ==
    [policy |-> [network |-> Network],
     memory |-> "recent",
     update |-> [unit |-> "episodes", batch_size |-> cfg["batch_size"],
                 frequency |-> UpdateFrequency(cfg)],
     optimizer |-> [type |-> "adam", learning_rate |-> cfg["learning_rate"]],
     objective |-> Objective(cfg),
     reward_estimation |->
         [horizon |-> cfg["horizon"], discount |-> cfg["discount"],
          predict_horizon_values |-> bundle.predict_horizon_values,
          estimate_advantage |-> bundle.estimate_advantage,
          predict_action_values |-> bundle.predict_action_values],
     baseline_policy |-> bundle.baseline_policy,
     baseline_optimizer |-> bundle.baseline_optimizer,
     baseline_objective |-> bundle.baseline_objective,
     entropy_regularization |-> EntropyRegularization(cfg)]

\* the keys read before the baseline branch (lines 39-52) and after it (line 78)
ReadsBeforeBranch == {"frequency", "batch_size", "learning_rate", "ratio_based", "horizon",
                      "discount", "baseline"}
ReadsAfterBranch == {"entropy_regularization"}

NoAgent == None
NoResult == None

\* lines 39-96: build the agent configuration and the empty lists
BuildAgent ==
    LET b == SelectBaseline(config) IN
    /\ pc = "start"
    /\ branch' = b.branch
    /\ IF b.raised # "None"
       THEN /\ pc' = "raised"
            /\ error' = b.raised
            /\ reads' = ReadsBeforeBranch \cup b.reads
            /\ agent' = NoAgent
            /\ UNCHANGED <<final_reward, max_reward, rewards>>
       ELSE /\ pc' = "loop"
            /\ error' = "None"
            /\ reads' = ReadsBeforeBranch \cup b.reads \cup ReadsAfterBranch
            /\ agent' = AgentDict(config, b.bundle)
            /\ final_reward' = <<>>
            /\ max_reward' = <<>>
            /\ rewards' = <<>>
    /\ UNCHANGED <<config, budget, n, runners, result>>
    /\ UNCHANGED registryVars

-----------------------------------------------------------------------------
(* tune.py: TensorforceWorker.compute, lines 98-121 *)

\* self.environment and self.max_episode_timesteps (lines 35-36)
Environment == [type |-> "Environment"]
MaxEpisodeTimesteps == None

\* the episode rewards a stubbed runner returns: profile p rises to its peak at
\* episode PeakOf(p) and falls after it
PeakOf(p) == ((p - 1) * 100) % 250
Profile(p) == [i \in 1..NumEpisodes |-> 50 - Abs(i - PeakOf(p))]
Profiles == 1..NumProfiles

\* Runner(agent=..., environment=..., max_episode_timesteps=...)
Runner(a, e, m) ==
    [agent |-> a, environment |-> e, max_episode_timesteps |-> m,
     state |-> "open", num_episodes |-> 0, episode_rewards |-> <<>>]

\* the runner of the current repetition
runner == runners[Len(runners)]

\* range(round(budget))
Repetitions == PyRound(budget, BudgetDen)

\* line 98: the loop goes on
LoopContinues == n < Repetitions

\* lines 99-102
ConstructRunner ==
    /\ pc = "loop"
    /\ LoopContinues
    /\ runners' = Append(runners, Runner(agent, Environment, MaxEpisodeTimesteps))
    /\ pc' = "run"
    /\ UNCHANGED <<config, budget, agent, branch, reads, error, n, final_reward,
                   max_reward, rewards, result>>
    /\ UNCHANGED registryVars

\* lines 99-102, the constructor raising
ConstructRunnerFails ==
    /\ pc = "loop"
    /\ LoopContinues
    /\ pc' = "raised"
    /\ error' = "ConstructError"
    /\ UNCHANGED <<config, budget, agent, branch, reads, n, runners, final_reward,
                   max_reward, rewards, result>>
    /\ UNCHANGED registryVars

\* line 103
RunEpisodes(p) ==
    /\ pc = "run"
    /\ runners' = [runners EXCEPT ![Len(runners)] =
                      [@ EXCEPT !.num_episodes = NumEpisodes,
                                !.episode_rewards = Profile(p)]]
    /\ pc' = "close"
    /\ UNCHANGED <<config, budget, agent, branch, reads, error, n, final_reward,
                   max_reward, rewards, result>>
    /\ UNCHANGED registryVars

\* variant: the failure caught and the repetition started again
RunEpisodesFailsRetried ==
    /\ pc = "run"
    /\ pc' = "loop"
    /\ error' = "RunError"
    /\ UNCHANGED <<config, budget, agent, branch, reads, n, runners, final_reward,
                   max_reward, rewards, result>>
    /\ UNCHANGED registryVars

\* line 103, run raising
RunEpisodesFails ==
    /\ pc = "run"
    /\ pc' = "raised"
    /\ error' = "RunError"
    /\ UNCHANGED <<config, budget, agent, branch, reads, n, runners, final_reward,
                   max_reward, rewards, result>>
    /\ UNCHANGED registryVars

\* variant: the runner left open
CloseRunnerSkipped ==
    /\ pc = "close"
    /\ pc' = "record"
    /\ UNCHANGED <<config, budget, agent, branch, reads, error, n, runners, final_reward,
                   max_reward, rewards, result>>
    /\ UNCHANGED registryVars

\* line 104
CloseRunner ==
    /\ pc = "close"
    /\ runners' = [runners EXCEPT ![Len(runners)] = [@ EXCEPT !.state = "closed"]]
    /\ pc' = "record"
    /\ UNCHANGED <<config, budget, agent, branch, reads, error, n, final_reward,
                   max_reward, rewards, result>>
    /\ UNCHANGED registryVars

\* line 107
FinalReward(episode_rewards) == MeanOfRewards(LastK(episode_rewards, Window))

\* the windowed means of every window of Window consecutive episodes
AverageRewardsAllWindows(episode_rewards) ==
    [k \in 1..PyMax(0, Len(episode_rewards) - Window + 1) |->
        MeanOfRewards(Slice(episode_rewards, k - 1, k - 1 + Window))]

\* lines 108-111: one windowed mean per k in range(len(episode_rewards) - 20)
AverageRewards(episode_rewards) ==
    [k \in 1..PyMax(0, Len(episode_rewards) - Window) |->
        MeanOfRewards(Slice(episode_rewards, k - 1, k - 1 + Window))]

\* lines 106-113; np.amax raises ValueError on an empty list
RecordRewards ==
    LET episode_rewards == runner.episode_rewards
        average_rewards == AverageRewards(episode_rewards)
    IN  /\ pc = "record"
        /\ final_reward' = Append(final_reward, FinalReward(episode_rewards))
        /\ IF average_rewards = <<>>
           THEN /\ pc' = "raised"
                /\ error' = "ValueError"
                /\ UNCHANGED <<max_reward, rewards, n>>
           ELSE /\ max_reward' = Append(max_reward, Amax(average_rewards))
                /\ rewards' = Append(rewards, episode_rewards)
                /\ n' = n + 1
                /\ pc' = "loop"
                /\ UNCHANGED error
        /\ UNCHANGED <<config, budget, agent, branch, reads, runners, result>>
        /\ UNCHANGED registryVars

\* lines 116-119
Loss(finals, maxes) ==
    FracSub(FracNeg(MeanOfFloats(finals)), MeanOfFloats(maxes))

\* lines 116-121, after the loop has ended
ReturnLoss ==
    /\ pc = "loop"
    /\ ~LoopContinues
    /\ result' = [loss |-> Loss(final_reward, max_reward), info |-> [rewards |-> rewards]]
    /\ pc' = "done"
    /\ UNCHANGED <<config, budget, agent, branch, reads, error, n, runners, final_reward,
                   max_reward, rewards>>
    /\ UNCHANGED registryVars

-----------------------------------------------------------------------------
(* Specifications *)

\* the registry before any call
RegistryIdle ==
    /\ calls = 0
    /\ last = NoCall
    /\ outcome = [c \in Operations \X AgentTypeNames |-> "NotCalled"]
    /\ constructed = <<>>

\* compute entered with a sample and a budget
ComputeEntered(samples, budgets) ==
    /\ config \in samples
    /\ budget \in budgets
    /\ pc = "start"
    /\ agent = NoAgent
    /\ branch = "None"
    /\ reads = {}
    /\ error = "None"
    /\ n = 0
    /\ runners = <<>>
    /\ final_reward = <<>>
    /\ max_reward = <<>>
    /\ rewards = <<>>
    /\ result = NoResult

\* what `baseline` can hold: the three choices and a value outside them
BaselineValues == Baselines \cup {"other"}

\* the budgets main configures the optimizer to supply (lines 253-258):
\* min_budget <= budget <= max_budget = max_repeats
BudgetValues ==
    {k \in 0..(MaxRepeats * BudgetDen) : k * MinBudgetDen >= MinBudgetNum * BudgetDen}

\* one sample of the search space per baseline, and one with a baseline outside it
CanonicalSample(bl) ==
    Sample({key \in ConditionalKeys : Active(key, bl)}, 10, 50, "yes", bl, "yes", 5)

ComputeSamples == {CanonicalSample(bl) : bl \in BaselineValues}

\* samples with every baseline value and every subset of the conditional keys
BranchSamples ==
    {Sample(present, 10, 50, rb, bl, ea, er) :
        present \in SUBSET ConditionalKeys, rb \in {"no", "yes"}, bl \in BaselineValues,
        ea \in {"no", "yes"}, er \in {2, 3, 5}}

\* samples over the whole declared range of batch_size and of frequency
\* (frequency on a grid of 1 / FrequencyDen)
UpdateSamples ==
    {Sample({}, bs, fq, "no", "no", "no", 5) :
        bs \in BatchSizeLower..BatchSizeUpper, fq \in FrequencyLowerNum..FrequencyDen}

Init == RegistryIdle /\ ComputeEntered(ComputeSamples, BudgetValues)

Next ==
    \/ BuildAgent
    \/ ConstructRunner
    \/ ConstructRunnerFails
    \/ \E p \in Profiles : RunEpisodes(p)
    \/ RunEpisodesFails
    \/ CloseRunner
    \/ RecordRewards
    \/ ReturnLoss

Spec == Init /\ [][Next]_vars

InitBranch == RegistryIdle /\ ComputeEntered(BranchSamples, {BudgetDen})
SpecBranch == InitBranch /\ [][Next]_vars

InitUpdate == RegistryIdle /\ ComputeEntered(UpdateSamples, {BudgetDen})
NextUpdate == BuildAgent
SpecUpdate == InitUpdate /\ [][NextUpdate]_vars

InitRegistry == RegistryIdle /\ ComputeEntered({CanonicalSample("no")}, {BudgetDen})
NextRegistry == CreateAgentStep \/ GetDefaultConfigStep
SpecRegistry == InitRegistry /\ [][NextRegistry]_vars

-----------------------------------------------------------------------------
(* Properties of the agent registry (SpecRegistry) *)

RegisteredNames == {"RandomAgent", "DQNAgent"}

\* C1: create_agent returns, for a registered type name, an instance of the class
\* of that name built from the two supplied configurations; for any other name it
\* raises TensorForceValueError and constructs no agent.
C1_CreateAgentDispatch ==
    last.op = "create_agent" =>
        IF last.agent_type \in RegisteredNames
        THEN /\ last.raised = "None"
             /\ last.value.instance_of = last.agent_type
             /\ last.value.agent_config = last.agent_config
             /\ last.value.network_config = last.network_config
             /\ Len(constructed) = last.before + 1
             /\ constructed[Len(constructed)] = last.value
        ELSE /\ last.raised = "TensorForceValueError"
             /\ last.value = None
             /\ Len(constructed) = last.before

C1_Witness ==
    /\ outcome[<<"create_agent", "DQNAgent">>] = "None"
    /\ outcome[<<"create_agent", "PPOAgent">>] = "TensorForceValueError"
    /\ Len(constructed) = 1
    /\ constructed[1].instance_of = "DQNAgent"

-----------------------------------------------------------------------------
(* Properties of TensorforceWorker.compute *)

\* the mean of the last Window rewards of a sequence of at least Window rewards
MeanOfLastWindow(er) ==
    Frac(SumInt(SubSeq(er, Len(er) - Window + 1, Len(er))), Window)

\* the largest mean of Window consecutive rewards, over every such window
MaxOverAllWindows(er) == Amax(AverageRewardsAllWindows(er))

\* C3: the max reward recorded for a repetition is the maximum, over all
\* 20-episode sliding windows of its episode rewards (the last 20 episodes
\* included), of the windowed mean.
C3_MaxOverAllWindows ==
    \A i \in 1..Len(max_reward) :
        max_reward[i] = MaxOverAllWindows(runners[i].episode_rewards)

\* x * k for a fraction x and an integer k
FracTimesInt(x, k) == Frac(x.num * k, x.den)

\* C4: the returned loss is -(mean of the repetitions' final rewards) - (mean of
\* the repetitions' max windowed rewards), and info.rewards holds the episode
\* reward sequence of each repetition, in repetition order.
C4_LossFormula ==
    (pc = "done" /\ Repetitions >= 1) =>
        LET R == Repetitions
            finals == [i \in 1..R |-> MeanOfLastWindow(runners[i].episode_rewards)]
            maxes == [i \in 1..R |-> MaxOverAllWindows(runners[i].episode_rewards)]
        IN  /\ Len(result.info.rewards) = R
            /\ \A i \in 1..R : result.info.rewards[i] = runners[i].episode_rewards
            /\ FracAdd(FracTimesInt(result.loss, R),
                       FracAdd(SumFrac(finals), SumFrac(maxes))) = Frac(0, 1)

OpenRunners == {i \in 1..Len(runners) : runners[i].state = "open"}

\* C5: when nothing fails, compute performs exactly round(budget) repetitions one
\* after another: each constructs a runner on the agent configuration and the
\* shared environment, runs 200 episodes on it and closes it before the next one is
\* constructed; at most one runner is open at a time, none when compute returns.
C5_SequentialRepetitions ==
    error = "None" =>
        /\ Cardinality(OpenRunners) <= 1
        /\ Len(runners) <= Repetitions
        /\ \A i \in 1..Len(runners) :
              /\ runners[i].agent = agent
              /\ runners[i].environment = Environment
              /\ i < Len(runners) => runners[i].state = "closed"
              /\ runners[i].state = "closed" => runners[i].num_episodes = NumEpisodes
        /\ pc = "done" =>
              /\ Len(runners) = Repetitions
              /\ OpenRunners = {}

C5_Witness ==
    /\ pc = "done"
    /\ error = "None"
    /\ Len(runners) = 2
    /\ Repetitions = 2

\* C6: a failure of the runner's construction or of its run leaves compute at
\* once: no result is returned, the failed repetition is not retried and no
\* later repetition is started.
C6_FailurePropagates ==
    error \in {"ConstructError", "RunError"} =>
        /\ pc = "raised"
        /\ result = NoResult
        /\ n < Repetitions
        /\ Len(rewards) = n
        /\ Len(runners) = IF error = "RunError" THEN n + 1 ELSE n

C6_Witness ==
    /\ error = "RunError"
    /\ pc = "raised"
    /\ n = 1
    /\ Len(runners) = 2

\* C7: each of the baseline values 'no', 'same', 'yes' enters its own branch and,
\* when the branch completes, yields that branch's bundle; any other value raises
\* AssertionError before a runner is constructed.
C7_BaselineExhaustive ==
    pc # "start" =>
        IF config["baseline"] \in {"no", "same", "yes"}
        THEN /\ branch = config["baseline"]
             /\ error # "AssertionError"
             /\ agent # NoAgent =>
                   CASE branch = "no" ->
                          /\ agent.baseline_optimizer = None
                          /\ agent.baseline_objective = None
                          /\ agent.baseline_policy = None
                          /\ agent.reward_estimation.predict_horizon_values = "False"
                          /\ agent.reward_estimation.estimate_advantage = FALSE
                     [] branch = "same" ->
                          /\ agent.baseline_optimizer = config["baseline_weight"]
                          /\ agent.baseline_objective # None
                          /\ agent.baseline_policy = None
                          /\ agent.reward_estimation.predict_horizon_values = "early"
                     [] branch = "yes" ->
                          /\ agent.baseline_optimizer =
                                 [type |-> "adam",
                                  learning_rate |-> config["baseline_learning_rate"]]
                          /\ agent.baseline_objective # None
                          /\ agent.baseline_policy # None
                          /\ agent.reward_estimation.predict_horizon_values = "early"
        ELSE /\ branch = "else"
             /\ error = "AssertionError"
             /\ pc = "raised"
             /\ agent = NoAgent
             /\ runners = <<>>

C7_Witness ==
    /\ config["baseline"] = "other"
    /\ error = "AssertionError"
    /\ pc = "raised"

\* C8: the update frequency is max(1, floor(frequency * batch_size)); for every
\* sample of the search space it is an integer between 1 and batch_size.
C8_UpdateFrequency ==
    (pc = "loop" /\ InSearchSpace(config)) =>
        LET f == agent.update.frequency
            bs == config["batch_size"]
            fr == config["frequency"]
        IN  /\ f \in 1..bs
            /\ \E q \in 0..bs :
                  /\ q * fr.den <= fr.num * bs
                  /\ fr.num * bs < (q + 1) * fr.den
                  /\ f = IF q < 1 THEN 1 ELSE q

C8_Witness ==
    /\ pc = "loop"
    /\ config["batch_size"] = 1
    /\ config["frequency"] = Frac(1, 100)
    /\ agent.update.frequency = 1

\* C9: for a sample of the search space, compute reads a conditional
\* hyperparameter only where it is present: no key it reads is missing.
C9_ReadsOnlyActiveKeys ==
    (pc # "start" /\ InSearchSpace(config)) =>
        /\ error # "KeyError"
        /\ reads \subseteq DOMAIN config

C9_Witness ==
    /\ pc = "loop"
    /\ InSearchSpace(config)
    /\ config["baseline"] = "same"
    /\ "baseline_weight" \in reads

\* C10: for every budget from min_budget to max_budget, compute runs at least one
\* repetition, so the loss is a mean over non-empty lists.
C10_AtLeastOneRepetition ==
    pc # "start" =>
        /\ Repetitions >= 1
        /\ pc = "done" =>
              /\ Len(final_reward) >= 1
              /\ Len(max_reward) >= 1
              /\ ~IsNaN(result.loss)

====
